---- MODULE Spec2Model ----
(***************************************************************************)
(* pylibjxl: the Python facade (src/src/pylibjxl/__init__.py) over the     *)
(* native binding _pylibjxl.  The facade's free functions, the JXL and     *)
(* AsyncJXL classes and their asyncio.to_thread dispatch are modelled from *)
(* the source; the native binding (the engine primitives and the _JXL base *)
(* class: constructor, close, closed, __enter__, __exit__, and the handle  *)
(* methods encode/decode/...) is not part of the source tree and is        *)
(* modelled from its documented contract.                                  *)
(***************************************************************************)
EXTENDS Integers, Sequences, FiniteSets, TLC

(***************************************************************************)
(* Bounds                                                                  *)
(***************************************************************************)
MaxOps == 2          \* calls made in one behaviour (chains of calls)
MaxFileOps == 1      \* calls made in one behaviour of the file-level survey
MaxCloses == 2       \* close() calls and scope exits per handle
MaxTasks == 2        \* coroutines in flight

(***************************************************************************)
(* Python values                                                           *)
(***************************************************************************)
\* An optional keyword argument: None (argument not supplied) or a value.
None == <<>>
Some(v) == <<v>>
IsNone(o) == o = None
Val(o) == o[1]

NoneVal == [kind |-> "None"]
Ok(v) == [ok |-> TRUE, val |-> v]
Err(k) == [ok |-> FALSE, err |-> k]

\* Pixel buffers; exact = FALSE marks samples that went through a lossy path.
Pixels(id) == [kind |-> "pixels", id |-> id, exact |-> TRUE]
Lossy(id) == [kind |-> "pixels", id |-> id, exact |-> FALSE]
NotArray == [kind |-> "notarray"]
BadChannels == [kind |-> "badchannels"]
Junk == [kind |-> "junk"]
NoMeta == [exif |-> None, xmp |-> None, jumbf |-> None]

(***************************************************************************)
(* Signature defaults of the free functions                                *)
(***************************************************************************)
DefaultEffort == 7
DefaultDistance == 10        \* 1.0, in tenths
DefaultLossless == FALSE
DefaultDecodingSpeed == 0
DefaultQuality == 95

\* A Python default argument: the caller's value, else the signature default.
Default(o, d) == IF IsNone(o) THEN d ELSE Val(o)

(***************************************************************************)
(* The native engine primitives (_pylibjxl free functions)                 *)
(***************************************************************************)
MetaMap(exif, xmp, jumbf) == [exif |-> exif, xmp |-> xmp, jumbf |-> jumbf]

encode(input, effort, distance, lossless, decoding_speed, exif, xmp, jumbf) ==
    IF input.kind = "notarray" THEN Err("TypeError")
    ELSE IF input.kind # "pixels" THEN Err("ValueError")
    ELSE Ok([kind |-> "jxl", origin |-> "pixels", pix |-> input,
             effort |-> effort, distance |-> distance, lossless |-> lossless,
             decoding_speed |-> decoding_speed,
             meta |-> MetaMap(exif, xmp, jumbf)])

decode(data, metadata) ==
    IF data.kind # "jxl" THEN Err("RuntimeError")
    ELSE LET buf == IF data.origin = "pixels"
                    THEN IF data.lossless /\ data.pix.exact
                         THEN data.pix ELSE Lossy(data.pix.id)
                    ELSE Lossy(data.jpeg.pix.id)
             meta == IF data.origin = "pixels" THEN data.meta ELSE NoMeta
         IN  IF metadata
             THEN Ok([kind |-> "pair", buf |-> buf, meta |-> meta])
             ELSE Ok(buf)

encode_jpeg(input, quality) ==
    IF input.kind = "notarray" THEN Err("TypeError")
    ELSE IF input.kind # "pixels" THEN Err("ValueError")
    ELSE Ok([kind |-> "jpeg", pix |-> input, quality |-> quality])

decode_jpeg(data) ==
    IF data.kind # "jpeg" THEN Err("RuntimeError")
    ELSE Ok(Lossy(data.pix.id))

jpeg_to_jxl(data, effort) ==
    IF data.kind # "jpeg" THEN Err("RuntimeError")
    ELSE Ok([kind |-> "jxl", origin |-> "jpeg", jpeg |-> data,
             effort |-> effort])

jxl_to_jpeg(data) ==
    IF data.kind # "jxl" THEN Err("RuntimeError")
    ELSE IF data.origin # "jpeg" THEN Err("NotReconstructible")
    ELSE Ok(data.jpeg)

(***************************************************************************)
(* The native handle (_JXL): state check, configuration resolver, engine   *)
(***************************************************************************)
\* Constructor: allocates the worker pool and marks the handle Open.
JXL_init(cls, effort, distance, lossless, decoding_speed, threads) ==
    [cls |-> cls, closed |-> FALSE, released |-> 0,
     effort |-> effort, distance |-> distance, lossless |-> lossless,
     decoding_speed |-> decoding_speed, threads |-> threads]

\* override if provided, else the instance default
Resolve(override, instance_default) ==
    IF IsNone(override) THEN instance_default ELSE Val(override)

JXL_encode(self, input, effort, distance, lossless, decoding_speed, exif, xmp, jumbf) ==
    IF self.closed THEN Err("StateError")
    ELSE encode(input, Resolve(effort, self.effort),
                Resolve(distance, self.distance),
                Resolve(lossless, self.lossless),
                Resolve(decoding_speed, self.decoding_speed),
                exif, xmp, jumbf)

JXL_decode(self, data, metadata) ==
    IF self.closed THEN Err("StateError") ELSE decode(data, metadata)

JXL_encode_jpeg(self, input, quality) ==
    IF self.closed THEN Err("StateError") ELSE encode_jpeg(input, quality)

JXL_decode_jpeg(self, data) ==
    IF self.closed THEN Err("StateError") ELSE decode_jpeg(data)

JXL_jpeg_to_jxl(self, data, effort) ==
    IF self.closed THEN Err("StateError")
    ELSE jpeg_to_jxl(data, Resolve(effort, self.effort))

JXL_jxl_to_jpeg(self, data) ==
    IF self.closed THEN Err("StateError") ELSE jxl_to_jpeg(data)

\* close(): the first call releases the pool and marks Closed; later calls
\* are no-ops.
JXL_close(self) ==
    IF self.closed THEN self
    ELSE [self EXCEPT !.closed = TRUE, !.released = @ + 1]

\* __enter__ returns the handle itself; __exit__ closes and returns None.
JXL_enter(self) == self
JXL_exit(self) == [self |-> JXL_close(self), suppress |-> FALSE]

(***************************************************************************)
(* The filesystem, as pathlib sees it                                      *)
(***************************************************************************)
\* Paths are sequences of components below a root that always exists.
Root == <<>>
Paths == { <<"a">>, <<"b">>, <<"d">>, <<"d", "e">>, <<"d", "e", "f">> }
Absent == [kind |-> "absent"]
Dir == [kind |-> "dir"]

Parent(p) == SubSeq(p, 1, Len(p) - 1)
Ancestors(p) == { SubSeq(p, 1, n) : n \in 1 .. (Len(p) - 1) }

IsDir(fsys, p) == p = Root \/ fsys[p].kind = "dir"
\* Path.exists(): False for a missing entry and below a non-directory.
PathExists(fsys, p) == p = Root \/ fsys[p].kind # "absent"
IsFile(fsys, p) == p # Root /\ fsys[p].kind \notin {"absent", "dir"}
UnderFile(fsys, p) == \E q \in Ancestors(p) : IsFile(fsys, q)

\* Every entry lives in a directory.
WellFormed(fsys) ==
    \A p \in Paths : PathExists(fsys, p) => IsDir(fsys, Parent(p))

\* Path.mkdir(parents=True, exist_ok=True): [fs, err].
Mkdir(fsys, q) ==
    IF IsDir(fsys, q) THEN [fs |-> fsys, err |-> ""]
    ELSE IF IsFile(fsys, q) THEN [fs |-> fsys, err |-> "FileExistsError"]
    ELSE IF UnderFile(fsys, q) THEN [fs |-> fsys, err |-> "NotADirectoryError"]
    ELSE [fs |-> [p \in Paths |->
                    IF p = q \/ p \in Ancestors(q)
                    THEN (IF fsys[p].kind = "absent" THEN Dir ELSE fsys[p])
                    ELSE fsys[p]],
          err |-> ""]

\* Path.read_bytes(): [data, err].
ReadBytes(fsys, p) ==
    IF IsFile(fsys, p) THEN [data |-> fsys[p], err |-> ""]
    ELSE IF IsDir(fsys, p) THEN [data |-> NoneVal, err |-> "IsADirectoryError"]
    ELSE IF UnderFile(fsys, p) THEN [data |-> NoneVal, err |-> "NotADirectoryError"]
    ELSE [data |-> NoneVal, err |-> "FileNotFoundError"]

\* Path.write_bytes(data): [fs, err]; an existing file is replaced.
WriteBytes(fsys, p, data) ==
    IF IsDir(fsys, p) THEN [fs |-> fsys, err |-> "IsADirectoryError"]
    ELSE IF UnderFile(fsys, p) THEN [fs |-> fsys, err |-> "NotADirectoryError"]
    ELSE IF ~IsDir(fsys, Parent(p)) THEN [fs |-> fsys, err |-> "FileNotFoundError"]
    ELSE [fs |-> [fsys EXCEPT ![p] = data], err |-> ""]

(***************************************************************************)
(* Statements of the facade.  A function body is a sequence of steps; a    *)
(* step runs on the caller's thread (job 0) or, inside the k-th            *)
(* asyncio.to_thread of a coroutine, on an executor thread (job k).        *)
(***************************************************************************)
FromData == [from |-> "data"]            \* the local holding the bytes read/produced
Arg(v) == [from |-> "arg", v |-> v]      \* an argument of the call

CheckExists(path) == [act |-> "exists", path |-> path, job |-> 0]
MkdirParents(path) == [act |-> "mkdir", path |-> path, job |-> 0]
ReadFile(path) == [act |-> "read_bytes", path |-> path, job |-> 0]
WriteFile(path) == [act |-> "write_bytes", path |-> path, job |-> 0]
Native(self, prim, input, a) ==
    [act |-> "native", self |-> self, prim |-> prim, input |-> input,
     a |-> a, job |-> 0]
ReturnData == [act |-> "return", job |-> 0]
\* self.<field> = value
SetAttr(self, field, value) ==
    [act |-> "setattr", self |-> self, field |-> field, value |-> value, job |-> 0]

\* await asyncio.to_thread(f, ...): the statements of f run as job k.
ToThread(k, body) == [i \in DOMAIN body |-> [body[i] EXCEPT !.job = k]]

\* The native call of a step: a module-level primitive or a bound method.
NativeCall(s, input, hs) ==
    LET a == s.a IN
    IF s.self = "free"
    THEN CASE s.prim = "encode" ->
                  encode(input, a.effort, a.distance, a.lossless,
                         a.decoding_speed, a.exif, a.xmp, a.jumbf)
           [] s.prim = "decode" -> decode(input, a.metadata)
           [] s.prim = "encode_jpeg" -> encode_jpeg(input, a.quality)
           [] s.prim = "decode_jpeg" -> decode_jpeg(input)
           [] s.prim = "jpeg_to_jxl" -> jpeg_to_jxl(input, a.effort)
           [] s.prim = "jxl_to_jpeg" -> jxl_to_jpeg(input)
    ELSE CASE s.prim = "encode" ->
                  JXL_encode(hs[s.self], input, a.effort, a.distance,
                             a.lossless, a.decoding_speed, a.exif, a.xmp,
                             a.jumbf)
           [] s.prim = "decode" -> JXL_decode(hs[s.self], input, a.metadata)
           [] s.prim = "encode_jpeg" ->
                  JXL_encode_jpeg(hs[s.self], input, a.quality)
           [] s.prim = "decode_jpeg" -> JXL_decode_jpeg(hs[s.self], input)
           [] s.prim = "jpeg_to_jxl" ->
                  JXL_jpeg_to_jxl(hs[s.self], input, a.effort)
           [] s.prim = "jxl_to_jpeg" -> JXL_jxl_to_jpeg(hs[s.self], input)

\* One statement: the frame after it.  err # "" is the exception it raised;
\* ret is set by a return statement.
Frame(data, fsys, hs, calls, err, ret) ==
    [data |-> data, fs |-> fsys, hs |-> hs, calls |-> calls, err |-> err,
     ret |-> ret]

SetField(self, field, value) ==
    CASE field = "effort" -> [self EXCEPT !.effort = value]
      [] field = "distance" -> [self EXCEPT !.distance = value]
      [] field = "lossless" -> [self EXCEPT !.lossless = value]
      [] field = "decoding_speed" -> [self EXCEPT !.decoding_speed = value]

ExecStep(s, fr) ==
    CASE s.act = "exists" ->
           IF PathExists(fr.fs, s.path) THEN fr
           ELSE [fr EXCEPT !.err = "FileNotFoundError"]
      [] s.act = "mkdir" ->
           LET r == Mkdir(fr.fs, Parent(s.path))
           IN  [fr EXCEPT !.fs = r.fs, !.err = r.err]
      [] s.act = "read_bytes" ->
           LET r == ReadBytes(fr.fs, s.path)
           IN  [fr EXCEPT !.data = r.data, !.err = r.err]
      [] s.act = "write_bytes" ->
           LET r == WriteBytes(fr.fs, s.path, fr.data)
           IN  [fr EXCEPT !.fs = r.fs, !.err = r.err]
      [] s.act = "native" ->
           LET input == IF s.input.from = "data" THEN fr.data ELSE s.input.v
               r == NativeCall(s, input, fr.hs)
           IN  [fr EXCEPT !.calls = Append(@, s.prim),
                          !.data = IF r.ok THEN r.val ELSE NoneVal,
                          !.err = IF r.ok THEN "" ELSE r.err]
      [] s.act = "return" -> [fr EXCEPT !.ret = TRUE]
      [] s.act = "setattr" ->
           [fr EXCEPT !.hs = [@ EXCEPT ![s.self] = SetField(@, s.field, s.value)]]

\* A body wrapped in "except Exception: return None".
Outcome_swallow(fr) == IF fr.err = "" /\ fr.ret THEN Ok(fr.data) ELSE Ok(NoneVal)

\* What the call gives its caller once the body has stopped at frame fr.
Outcome(fr) ==
    IF fr.err # "" THEN Err(fr.err)
    ELSE IF fr.ret THEN Ok(fr.data)
    ELSE Ok(NoneVal)

\* A body run from statement pc to its end on one thread of control.
RECURSIVE RunFrom(_, _, _)
RunFrom(body, pc, fr) ==
    IF pc > Len(body) \/ fr.err # "" \/ fr.ret THEN fr
    ELSE RunFrom(body, pc + 1, ExecStep(body[pc], fr))

Run(body, fsys, hs) == RunFrom(body, 1, Frame(NoneVal, fsys, hs, <<>>, "", FALSE))

(***************************************************************************)
(* The functions of the facade, statement by statement                     *)
(***************************************************************************)
EncArgs(effort, distance, lossless, decoding_speed, exif, xmp, jumbf) ==
    [effort |-> effort, distance |-> distance, lossless |-> lossless,
     decoding_speed |-> decoding_speed, exif |-> exif, xmp |-> xmp,
     jumbf |-> jumbf]

\* A primitive called directly: a re-exported module function (self = "free")
\* or a method a handle class inherits from the native base class.
Primitive(self, prim, input, a) == << Native(self, prim, Arg(input), a), ReturnData >>

\* ---- module-level functions ----
encode_async(input, effort, distance, lossless, decoding_speed, exif, xmp, jumbf) ==
    ToThread(1, << Native("free", "encode", Arg(input),
                          EncArgs(Default(effort, DefaultEffort),
                                  Default(distance, DefaultDistance),
                                  Default(lossless, DefaultLossless),
                                  Default(decoding_speed, DefaultDecodingSpeed),
                                  exif, xmp, jumbf)),
                   ReturnData >>)

decode_async(data, metadata) ==
    ToThread(1, << Native("free", "decode", Arg(data), [metadata |-> metadata]),
                   ReturnData >>)

\* Variant: the existence check is left to read_bytes.
read_unchecked(path, metadata) ==
    << ReadFile(path),
       Native("free", "decode", FromData, [metadata |-> metadata]),
       ReturnData >>

read(path, metadata) ==
    << CheckExists(path),
       ReadFile(path),
       Native("free", "decode", FromData, [metadata |-> metadata]),
       ReturnData >>

\* Variant: exif and xmp change places in the call to encode.
write_crossed(path, image, effort, distance, lossless, decoding_speed, exif, xmp, jumbf) ==
    << MkdirParents(path),
       Native("free", "encode", Arg(image),
              EncArgs(Default(effort, DefaultEffort),
                      Default(distance, DefaultDistance),
                      Default(lossless, DefaultLossless),
                      Default(decoding_speed, DefaultDecodingSpeed),
                      xmp, exif, jumbf)),
       WriteFile(path) >>

write(path, image, effort, distance, lossless, decoding_speed, exif, xmp, jumbf) ==
    << MkdirParents(path),
       Native("free", "encode", Arg(image),
              EncArgs(Default(effort, DefaultEffort),
                      Default(distance, DefaultDistance),
                      Default(lossless, DefaultLossless),
                      Default(decoding_speed, DefaultDecodingSpeed),
                      exif, xmp, jumbf)),
       WriteFile(path) >>

\* Variant: the metadata request is not forwarded.
read_async_plain(path, metadata) == ToThread(1, read(path, FALSE))

read_async(path, metadata) == ToThread(1, read(path, metadata))

write_async(path, image, effort, distance, lossless, decoding_speed, exif, xmp, jumbf) ==
    ToThread(1, write(path, image,
                      Some(Default(effort, DefaultEffort)),
                      Some(Default(distance, DefaultDistance)),
                      Some(Default(lossless, DefaultLossless)),
                      Some(Default(decoding_speed, DefaultDecodingSpeed)),
                      exif, xmp, jumbf))

encode_jpeg_async(input, quality) ==
    ToThread(1, << Native("free", "encode_jpeg", Arg(input),
                          [quality |-> Default(quality, DefaultQuality)]),
                   ReturnData >>)

decode_jpeg_async(data) ==
    ToThread(1, << Native("free", "decode_jpeg", Arg(data), [none |-> TRUE]),
                   ReturnData >>)

jpeg_to_jxl_async(data, effort) ==
    ToThread(1, << Native("free", "jpeg_to_jxl", Arg(data),
                          [effort |-> Default(effort, DefaultEffort)]),
                   ReturnData >>)

\* jxl_to_jpeg_async handing its bytes to the JPEG decoder.
jxl_to_jpeg_async_miswired(data) == ToThread(1, << Native("free", "decode_jpeg", Arg(data), [none |-> TRUE]), ReturnData >>)

jxl_to_jpeg_async(data) ==
    ToThread(1, << Native("free", "jxl_to_jpeg", Arg(data), [none |-> TRUE]),
                   ReturnData >>)

read_jpeg(path) ==
    << CheckExists(path),
       ReadFile(path),
       Native("free", "decode_jpeg", FromData, [none |-> TRUE]),
       ReturnData >>

write_jpeg(path, image, quality) ==
    << MkdirParents(path),
       Native("free", "encode_jpeg", Arg(image),
              [quality |-> Default(quality, DefaultQuality)]),
       WriteFile(path) >>

read_jpeg_async(path) == ToThread(1, read_jpeg(path))

write_jpeg_async(path, image, quality) ==
    ToThread(1, write_jpeg(path, image, Some(Default(quality, DefaultQuality))))

convert_jpeg_to_jxl(jpeg_path, jxl_path, effort) ==
    << CheckExists(jpeg_path),
       MkdirParents(jxl_path),
       ReadFile(jpeg_path),
       Native("free", "jpeg_to_jxl", FromData,
              [effort |-> Default(effort, DefaultEffort)]),
       WriteFile(jxl_path) >>

\* Variant: the bytes read are written back without reconstruction.
convert_jxl_to_jpeg_copy(jxl_path, jpeg_path) ==
    << CheckExists(jxl_path),
       MkdirParents(jpeg_path),
       ReadFile(jxl_path),
       WriteFile(jpeg_path) >>

convert_jxl_to_jpeg(jxl_path, jpeg_path) ==
    << CheckExists(jxl_path),
       MkdirParents(jpeg_path),
       ReadFile(jxl_path),
       Native("free", "jxl_to_jpeg", FromData, [none |-> TRUE]),
       WriteFile(jpeg_path) >>

convert_jpeg_to_jxl_async(jpeg_path, jxl_path, effort) ==
    ToThread(1, convert_jpeg_to_jxl(jpeg_path, jxl_path,
                                    Some(Default(effort, DefaultEffort))))

convert_jxl_to_jpeg_async(jxl_path, jpeg_path) ==
    ToThread(1, convert_jxl_to_jpeg(jxl_path, jpeg_path))

\* ---- class JXL ----
JXL_read(self, path, metadata) ==
    << CheckExists(path),
       ReadFile(path),
       Native(self, "decode", FromData, [metadata |-> metadata]),
       ReturnData >>

\* Variant: the output file is opened (emptied) before the image is encoded.
JXL_write_truncating(self, path, image, effort, distance, lossless, decoding_speed, exif, xmp, jumbf) ==
    << MkdirParents(path),
       WriteFile(path),
       Native(self, "encode", Arg(image),
              EncArgs(effort, distance, lossless, decoding_speed,
                      exif, xmp, jumbf)),
       WriteFile(path) >>

\* Variant: effort and decoding_speed change places in the call to encode.
JXL_write_swapped(self, path, image, effort, distance, lossless, decoding_speed, exif, xmp, jumbf) ==
    << MkdirParents(path),
       Native(self, "encode", Arg(image),
              EncArgs(decoding_speed, distance, lossless, effort,
                      exif, xmp, jumbf)),
       WriteFile(path) >>

\* Variant: a supplied effort is stored on the handle before encoding.
JXL_write_storing(self, path, image, effort, distance, lossless, decoding_speed, exif, xmp, jumbf) ==
    (IF IsNone(effort) THEN << >>
     ELSE << SetAttr(self, "effort", Val(effort)) >>)
    \o << MkdirParents(path),
          Native(self, "encode", Arg(image),
                 EncArgs(effort, distance, lossless, decoding_speed,
                         exif, xmp, jumbf)),
          WriteFile(path) >>

JXL_write(self, path, image, effort, distance, lossless, decoding_speed, exif, xmp, jumbf) ==
    << MkdirParents(path),
       Native(self, "encode", Arg(image),
              EncArgs(effort, distance, lossless, decoding_speed,
                      exif, xmp, jumbf)),
       WriteFile(path) >>

JXL_read_jpeg(self, path) ==
    << CheckExists(path),
       ReadFile(path),
       Native(self, "decode_jpeg", FromData, [none |-> TRUE]),
       ReturnData >>

\* Variant: the quality argument is not forwarded.
JXL_write_jpeg_fixed(self, path, image, quality) ==
    << MkdirParents(path),
       Native(self, "encode_jpeg", Arg(image), [quality |-> DefaultQuality]),
       WriteFile(path) >>

JXL_write_jpeg(self, path, image, quality) ==
    << MkdirParents(path),
       Native(self, "encode_jpeg", Arg(image),
              [quality |-> Default(quality, DefaultQuality)]),
       WriteFile(path) >>

JXL_convert_jpeg_to_jxl(self, jpeg_path, jxl_path, effort) ==
    << CheckExists(jpeg_path),
       MkdirParents(jxl_path),
       ReadFile(jpeg_path),
       Native(self, "jpeg_to_jxl", FromData, [effort |-> effort]),
       WriteFile(jxl_path) >>

JXL_convert_jxl_to_jpeg(self, jxl_path, jpeg_path) ==
    << CheckExists(jxl_path),
       MkdirParents(jpeg_path),
       ReadFile(jxl_path),
       Native(self, "jxl_to_jpeg", FromData, [none |-> TRUE]),
       WriteFile(jpeg_path) >>

\* ---- class AsyncJXL ----
\* Variant: the worker parks a supplied effort on the handle, then encodes.
AsyncJXL_encode_async_parked(self, input, effort, distance, lossless, decoding_speed, exif, xmp, jumbf) ==
    ToThread(1, (IF IsNone(effort) THEN << >>
                 ELSE << SetAttr(self, "effort", Val(effort)) >>)
                \o << Native(self, "encode", Arg(input),
                             EncArgs(None, distance, lossless, decoding_speed,
                                     exif, xmp, jumbf)),
                      ReturnData >>)

\* Variant: lossless is forwarded as "lossless or None".
AsyncJXL_encode_async_truthy(self, input, effort, distance, lossless, decoding_speed, exif, xmp, jumbf) ==
    ToThread(1, << Native(self, "encode", Arg(input),
                          EncArgs(effort, distance,
                                  IF lossless = Some(FALSE) THEN None
                                  ELSE lossless,
                                  decoding_speed, exif, xmp, jumbf)),
                   ReturnData >>)

AsyncJXL_encode_async(self, input, effort, distance, lossless, decoding_speed, exif, xmp, jumbf) ==
    ToThread(1, << Native(self, "encode", Arg(input),
                          EncArgs(effort, distance, lossless, decoding_speed,
                                  exif, xmp, jumbf)),
                   ReturnData >>)

\* Variant: every AsyncJXL decodes through one handle shared by the module.
AsyncJXL_decode_async_shared(self, data, metadata) == ToThread(1, << Native("jxl", "decode", Arg(data), [metadata |-> metadata]), ReturnData >>)

AsyncJXL_decode_async(self, data, metadata) ==
    ToThread(1, << Native(self, "decode", Arg(data), [metadata |-> metadata]),
                   ReturnData >>)

AsyncJXL_read_async(self, path, metadata) ==
    << CheckExists(path) >>
    \o ToThread(1, << ReadFile(path) >>)
    \o ToThread(2, << Native(self, "decode", FromData, [metadata |-> metadata]) >>)
    \o << ReturnData >>

\* Variant: lossless is not forwarded to encode.
AsyncJXL_write_async_lossy(self, path, image, effort, distance, lossless, decoding_speed, exif, xmp, jumbf) ==
    ToThread(1, << Native(self, "encode", Arg(image),
                          EncArgs(effort, distance, None, decoding_speed,
                                  exif, xmp, jumbf)) >>)
    \o << MkdirParents(path) >>
    \o ToThread(2, << WriteFile(path) >>)

AsyncJXL_write_async(self, path, image, effort, distance, lossless, decoding_speed, exif, xmp, jumbf) ==
    ToThread(1, << Native(self, "encode", Arg(image),
                          EncArgs(effort, distance, lossless, decoding_speed,
                                  exif, xmp, jumbf)) >>)
    \o << MkdirParents(path) >>
    \o ToThread(2, << WriteFile(path) >>)

AsyncJXL_encode_jpeg_async(self, input, quality) ==
    ToThread(1, << Native(self, "encode_jpeg", Arg(input),
                          [quality |-> Default(quality, DefaultQuality)]),
                   ReturnData >>)

AsyncJXL_decode_jpeg_async(self, data) ==
    ToThread(1, << Native(self, "decode_jpeg", Arg(data), [none |-> TRUE]),
                   ReturnData >>)

AsyncJXL_read_jpeg_async(self, path) ==
    << CheckExists(path) >>
    \o ToThread(1, << ReadFile(path) >>)
    \o ToThread(2, << Native(self, "decode_jpeg", FromData, [none |-> TRUE]) >>)
    \o << ReturnData >>

AsyncJXL_write_jpeg_async(self, path, image, quality) ==
    ToThread(1, << Native(self, "encode_jpeg", Arg(image),
                          [quality |-> Default(quality, DefaultQuality)]) >>)
    \o << MkdirParents(path) >>
    \o ToThread(2, << WriteFile(path) >>)

AsyncJXL_jpeg_to_jxl_async(self, data, effort) ==
    ToThread(1, << Native(self, "jpeg_to_jxl", Arg(data), [effort |-> effort]),
                   ReturnData >>)

AsyncJXL_jxl_to_jpeg_async(self, data) ==
    ToThread(1, << Native(self, "jxl_to_jpeg", Arg(data), [none |-> TRUE]),
                   ReturnData >>)

\* Variant: the output directories are made before the input is looked for.
AsyncJXL_convert_jpeg_to_jxl_async_eager(self, jpeg_path, jxl_path, effort) == ToThread(1, << MkdirParents(jxl_path), CheckExists(jpeg_path), ReadFile(jpeg_path), Native(self, "jpeg_to_jxl", FromData, [effort |-> effort]), WriteFile(jxl_path) >>)

AsyncJXL_convert_jpeg_to_jxl_async(self, jpeg_path, jxl_path, effort) ==
    ToThread(1, << CheckExists(jpeg_path),
                   MkdirParents(jxl_path),
                   ReadFile(jpeg_path),
                   Native(self, "jpeg_to_jxl", FromData, [effort |-> effort]),
                   WriteFile(jxl_path) >>)

AsyncJXL_convert_jxl_to_jpeg_async(self, jxl_path, jpeg_path) ==
    ToThread(1, << CheckExists(jxl_path),
                   MkdirParents(jpeg_path),
                   ReadFile(jxl_path),
                   Native(self, "jxl_to_jpeg", FromData, [none |-> TRUE]),
                   WriteFile(jpeg_path) >>)

(***************************************************************************)
(* Calls: which function a call reaches                                    *)
(***************************************************************************)
Handles == {"jxl", "ajxl"}
Cls(h) == IF h = "jxl" THEN "JXL" ELSE "AsyncJXL"

\* A caller form: the module-level functions or a handle, blocking or awaited.
Free == [self |-> "free", cls |-> "free", async |-> FALSE]
FreeAsync == [self |-> "free", cls |-> "free", async |-> TRUE]
Method(h) == [self |-> h, cls |-> Cls(h), async |-> FALSE]
MethodAsync(h) == [self |-> h, cls |-> Cls(h), async |-> TRUE]

Primitives ==
    {"encode", "decode", "encode_jpeg", "decode_jpeg", "jpeg_to_jxl", "jxl_to_jpeg"}
FileOps ==
    {"read", "write", "read_jpeg", "write_jpeg",
     "convert_jpeg_to_jxl", "convert_jxl_to_jpeg"}

\* JXL defines the blocking file methods, AsyncJXL the *_async methods; both
\* inherit the six primitives as blocking methods.
Defined(op, c) ==
    CASE c.cls = "free" -> TRUE
      [] c.cls = "JXL" -> ~c.async
      [] c.cls = "AsyncJXL" -> c.async \/ op \in Primitives

NoOverrides ==
    [effort |-> None, distance |-> None, lossless |-> None, decoding_speed |-> None]
NoPath == Root
NoArgs ==
    [path |-> NoPath, path2 |-> NoPath, input |-> NoneVal, ov |-> NoOverrides,
     meta |-> NoMeta, metadata |-> FALSE, quality |-> None]

\* Keyword arguments of a primitive called directly; the module-level
\* primitives apply their signature defaults, the methods take None.
PrimArgs(op, c, x) ==
    CASE op = "encode" ->
           IF c.cls = "free"
           THEN EncArgs(Default(x.ov.effort, DefaultEffort),
                        Default(x.ov.distance, DefaultDistance),
                        Default(x.ov.lossless, DefaultLossless),
                        Default(x.ov.decoding_speed, DefaultDecodingSpeed),
                        x.meta.exif, x.meta.xmp, x.meta.jumbf)
           ELSE EncArgs(x.ov.effort, x.ov.distance, x.ov.lossless,
                        x.ov.decoding_speed,
                        x.meta.exif, x.meta.xmp, x.meta.jumbf)
      [] op = "decode" -> [metadata |-> x.metadata]
      [] op = "encode_jpeg" -> [quality |-> Default(x.quality, DefaultQuality)]
      [] op = "jpeg_to_jxl" ->
           IF c.cls = "free"
           THEN [effort |-> Default(x.ov.effort, DefaultEffort)]
           ELSE [effort |-> x.ov.effort]
      [] OTHER -> [none |-> TRUE]

FreeBody(op, x) ==
    CASE op = "read" -> read(x.path, x.metadata)
      [] op = "write" ->
           write(x.path, x.input, x.ov.effort, x.ov.distance, x.ov.lossless,
                 x.ov.decoding_speed, x.meta.exif, x.meta.xmp, x.meta.jumbf)
      [] op = "read_jpeg" -> read_jpeg(x.path)
      [] op = "write_jpeg" -> write_jpeg(x.path, x.input, x.quality)
      [] op = "convert_jpeg_to_jxl" ->
           convert_jpeg_to_jxl(x.path, x.path2, x.ov.effort)
      [] op = "convert_jxl_to_jpeg" -> convert_jxl_to_jpeg(x.path, x.path2)
      [] OTHER -> Primitive("free", op, x.input, PrimArgs(op, Free, x))

FreeAsyncBody(op, x) ==
    CASE op = "encode" ->
           encode_async(x.input, x.ov.effort, x.ov.distance, x.ov.lossless,
                        x.ov.decoding_speed, x.meta.exif, x.meta.xmp,
                        x.meta.jumbf)
      [] op = "decode" -> decode_async(x.input, x.metadata)
      [] op = "encode_jpeg" -> encode_jpeg_async(x.input, x.quality)
      [] op = "decode_jpeg" -> decode_jpeg_async(x.input)
      [] op = "jpeg_to_jxl" -> jpeg_to_jxl_async(x.input, x.ov.effort)
      [] op = "jxl_to_jpeg" -> jxl_to_jpeg_async(x.input)
      [] op = "read" -> read_async(x.path, x.metadata)
      [] op = "write" ->
           write_async(x.path, x.input, x.ov.effort, x.ov.distance,
                       x.ov.lossless, x.ov.decoding_speed, x.meta.exif,
                       x.meta.xmp, x.meta.jumbf)
      [] op = "read_jpeg" -> read_jpeg_async(x.path)
      [] op = "write_jpeg" -> write_jpeg_async(x.path, x.input, x.quality)
      [] op = "convert_jpeg_to_jxl" ->
           convert_jpeg_to_jxl_async(x.path, x.path2, x.ov.effort)
      [] op = "convert_jxl_to_jpeg" -> convert_jxl_to_jpeg_async(x.path, x.path2)

JXLBody(op, self, x) ==
    CASE op = "read" -> JXL_read(self, x.path, x.metadata)
      [] op = "write" ->
           JXL_write(self, x.path, x.input, x.ov.effort, x.ov.distance,
                     x.ov.lossless, x.ov.decoding_speed, x.meta.exif,
                     x.meta.xmp, x.meta.jumbf)
      [] op = "read_jpeg" -> JXL_read_jpeg(self, x.path)
      [] op = "write_jpeg" -> JXL_write_jpeg(self, x.path, x.input, x.quality)
      [] op = "convert_jpeg_to_jxl" ->
           JXL_convert_jpeg_to_jxl(self, x.path, x.path2, x.ov.effort)
      [] op = "convert_jxl_to_jpeg" ->
           JXL_convert_jxl_to_jpeg(self, x.path, x.path2)
      [] OTHER -> Primitive(self, op, x.input, PrimArgs(op, Method(self), x))

AsyncJXLBody(op, self, x) ==
    CASE op = "encode" ->
           AsyncJXL_encode_async(self, x.input, x.ov.effort, x.ov.distance,
                                 x.ov.lossless, x.ov.decoding_speed,
                                 x.meta.exif, x.meta.xmp, x.meta.jumbf)
      [] op = "decode" -> AsyncJXL_decode_async(self, x.input, x.metadata)
      [] op = "encode_jpeg" -> AsyncJXL_encode_jpeg_async(self, x.input, x.quality)
      [] op = "decode_jpeg" -> AsyncJXL_decode_jpeg_async(self, x.input)
      [] op = "jpeg_to_jxl" -> AsyncJXL_jpeg_to_jxl_async(self, x.input, x.ov.effort)
      [] op = "jxl_to_jpeg" -> AsyncJXL_jxl_to_jpeg_async(self, x.input)
      [] op = "read" -> AsyncJXL_read_async(self, x.path, x.metadata)
      [] op = "write" ->
           AsyncJXL_write_async(self, x.path, x.input, x.ov.effort,
                                x.ov.distance, x.ov.lossless,
                                x.ov.decoding_speed, x.meta.exif, x.meta.xmp,
                                x.meta.jumbf)
      [] op = "read_jpeg" -> AsyncJXL_read_jpeg_async(self, x.path)
      [] op = "write_jpeg" ->
           AsyncJXL_write_jpeg_async(self, x.path, x.input, x.quality)
      [] op = "convert_jpeg_to_jxl" ->
           AsyncJXL_convert_jpeg_to_jxl_async(self, x.path, x.path2, x.ov.effort)
      [] op = "convert_jxl_to_jpeg" ->
           AsyncJXL_convert_jxl_to_jpeg_async(self, x.path, x.path2)

\* The body the call op(x) of caller form c executes.
Body(op, c, x) ==
    IF c.cls = "free"
    THEN (IF c.async THEN FreeAsyncBody(op, x) ELSE FreeBody(op, x))
    ELSE IF c.async THEN AsyncJXLBody(op, c.self, x)
    ELSE JXLBody(op, c.self, x)

(***************************************************************************)
(* State                                                                   *)
(***************************************************************************)
VARIABLES
    handles,    \* handle -> the native object: closed flag, pool, configuration
    scope,      \* handle -> TRUE while inside its with / async with block
    lastExit,   \* the last scope exit: handle, did the body raise, did it propagate
    fs,         \* path -> Absent, Dir or the bytes of the file
    tasks,      \* awaited coroutines in flight
    last,       \* the last call that returned: arguments, state before, result
    nops,       \* calls made
    closes,     \* handle -> close() calls made on it, explicit or by scope exit
    ctor        \* the configuration the handles were constructed with

vars == <<handles, scope, lastExit, fs, tasks, last, nops, closes, ctor>>

TaskIds == 1 .. MaxTasks
Idle == [st |-> "idle"]
AllIdle == \A t \in TaskIds : tasks[t].st = "idle"

NoExit == [h |-> "none", raised |-> FALSE, propagated |-> FALSE]

\* The state after the handles are constructed with configuration k.
Init(U) ==
    /\ ctor \in U.ctors
    /\ handles = [h \in Handles |->
                    JXL_init(Cls(h), ctor.effort, ctor.distance, ctor.lossless,
                             ctor.decoding_speed, ctor.threads)]
    /\ scope = [h \in Handles |-> FALSE]
    /\ lastExit = NoExit
    /\ fs \in U.initfs
    /\ tasks = [t \in TaskIds |-> Idle]
    /\ last = [n |-> 0, op |-> "none", c |-> Free, x |-> NoArgs, fs0 |-> fs,
               hs0 |-> handles, res |-> Ok(NoneVal), calls |-> <<>>, fs1 |-> fs]
    /\ nops = 0
    /\ closes = [h \in Handles |-> 0]

(***************************************************************************)
(* Lifecycle                                                               *)
(***************************************************************************)
\* Variant: entering the block marks the handle Open again.
AsyncJXL_aenter_reopen(self) == [JXL_enter(self) EXCEPT !.closed = FALSE]

\* async def __aenter__(self): self.__enter__(); return self
AsyncJXL_aenter(self) == JXL_enter(self)

\* Variant: the exit shuts the pool down itself before delegating.
AsyncJXL_aexit_release_again(self) ==
    [self |-> [JXL_exit(self).self EXCEPT !.released = @ + 1], suppress |-> FALSE]

\* Variant: the exit does not delegate to __exit__.
AsyncJXL_aexit_skip(self) == [self |-> self, suppress |-> FALSE]

\* async def __aexit__(self, ...): self.__exit__(...)   (returns None)
AsyncJXL_aexit(self) == [self |-> JXL_exit(self).self, suppress |-> FALSE]

EnterOf(h) ==
    IF Cls(h) = "AsyncJXL" THEN AsyncJXL_aenter(handles[h]) ELSE JXL_enter(handles[h])
ExitOf(h) ==
    IF Cls(h) = "AsyncJXL" THEN AsyncJXL_aexit(handles[h]) ELSE JXL_exit(handles[h])

\* handle.close()
Close(h) ==
    /\ AllIdle
    /\ closes[h] < MaxCloses
    /\ handles' = [handles EXCEPT ![h] = JXL_close(@)]
    /\ closes' = [closes EXCEPT ![h] = @ + 1]
    /\ UNCHANGED <<scope, lastExit, fs, tasks, last, nops, ctor>>

\* with handle: / async with handle:   -- the block is entered
Enter(h) ==
    /\ AllIdle
    /\ ~scope[h]
    /\ closes[h] < MaxCloses
    /\ handles' = [handles EXCEPT ![h] = EnterOf(h)]
    /\ scope' = [scope EXCEPT ![h] = TRUE]
    /\ UNCHANGED <<lastExit, fs, tasks, last, nops, closes, ctor>>

\* The block is left: normally (raised = FALSE) or by an exception of its body.
\* The exception propagates unless the exit method returns a true value.
Exit(h, raised) ==
    /\ AllIdle
    /\ scope[h]
    /\ LET r == ExitOf(h)
       IN  /\ handles' = [handles EXCEPT ![h] = r.self]
           /\ lastExit' = [h |-> h, raised |-> raised,
                           propagated |-> raised /\ ~r.suppress]
    /\ scope' = [scope EXCEPT ![h] = FALSE]
    /\ closes' = [closes EXCEPT ![h] = @ + 1]
    /\ UNCHANGED <<fs, tasks, last, nops, ctor>>

ExitNormal(h) == Exit(h, FALSE)
ExitRaise(h) == Exit(h, TRUE)

(***************************************************************************)
(* Calls                                                                   *)
(***************************************************************************)
Returned(op, c, x, fs0, hs0, res, calls, fs1) ==
    [n |-> last.n + 1, op |-> op, c |-> c, x |-> x, fs0 |-> fs0, hs0 |-> hs0,
     res |-> res, calls |-> calls, fs1 |-> fs1]

\* A blocking call runs its body to the end on the caller's thread.
CallSync(op, c, x) ==
    LET fr == Run(Body(op, c, x), fs, handles)
    IN  /\ fs' = fr.fs
        /\ handles' = fr.hs
        /\ last' = Returned(op, c, x, fs, handles, Outcome(fr), fr.calls, fr.fs)
        /\ UNCHANGED tasks

\* An awaited call becomes a coroutine at its first statement.
CallAsync(op, c, x) ==
    /\ \E t \in TaskIds :
         /\ tasks[t].st = "idle"
         /\ \A u \in TaskIds : u < t => tasks[u].st # "idle"
         /\ tasks' = [tasks EXCEPT ![t] =
                        [st |-> "run", op |-> op, c |-> c, x |-> x, fs0 |-> fs,
                         hs0 |-> handles, pc |-> 1, data |-> NoneVal,
                         calls |-> <<>>, err |-> "", ret |-> FALSE]]
    /\ UNCHANGED <<handles, fs, last>>

Invoke(U, op, c, x) ==
    /\ Defined(op, c)
    /\ AllIdle
    /\ nops < U.maxops
    /\ nops' = nops + 1
    /\ IF c.async THEN CallAsync(op, c, x) ELSE CallSync(op, c, x)
    /\ UNCHANGED <<scope, lastExit, closes, ctor>>

Stopped(k) == k.pc > Len(Body(k.op, k.c, k.x)) \/ k.err # "" \/ k.ret

\* One statement of coroutine t, on the thread its job runs on.
TaskStep(t, onWorker) ==
    /\ tasks[t].st = "run"
    /\ ~Stopped(tasks[t])
    /\ LET k == tasks[t]
           s == Body(k.op, k.c, k.x)[k.pc]
           fr == ExecStep(s, Frame(k.data, fs, handles, k.calls, k.err, k.ret))
       IN  /\ (s.job > 0) = onWorker
           /\ fs' = fr.fs
           /\ handles' = fr.hs
           /\ tasks' = [tasks EXCEPT ![t] =
                          [k EXCEPT !.pc = k.pc + 1, !.data = fr.data,
                                    !.calls = fr.calls, !.err = fr.err,
                                    !.ret = fr.ret]]
    /\ UNCHANGED <<scope, lastExit, last, nops, closes, ctor>>

LoopStep(t) == TaskStep(t, FALSE)
WorkerStep(t) == TaskStep(t, TRUE)

\* Variant: a completion is handed back only while the handle is Open.
Deliver_dropped(t) == /\ tasks[t].st = "run" /\ Stopped(tasks[t]) /\ (IF tasks[t].c.self = "free" THEN TRUE ELSE ~handles[tasks[t].c.self].closed) /\ last' = Returned(tasks[t].op, tasks[t].c, tasks[t].x, tasks[t].fs0, tasks[t].hs0, Outcome(Frame(tasks[t].data, fs, handles, tasks[t].calls, tasks[t].err, tasks[t].ret)), tasks[t].calls, fs) /\ tasks' = [tasks EXCEPT ![t] = Idle] /\ UNCHANGED <<handles, scope, lastExit, fs, nops, closes, ctor>>

\* The await completes: the coroutine's value or exception reaches the caller.
Deliver(t) ==
    /\ tasks[t].st = "run"
    /\ Stopped(tasks[t])
    /\ LET k == tasks[t]
       IN  last' = Returned(k.op, k.c, k.x, k.fs0, k.hs0,
                            Outcome(Frame(k.data, fs, handles, k.calls, k.err,
                                          k.ret)),
                            k.calls, fs)
    /\ tasks' = [tasks EXCEPT ![t] = Idle]
    /\ UNCHANGED <<handles, scope, lastExit, fs, nops, closes, ctor>>

(***************************************************************************)
(* The operations of the public surface, over a universe U of inputs       *)
(***************************************************************************)
\* Bytes produced by the previous call may be passed to the next one.
Chained ==
    IF last.res.ok /\ last.res.val.kind \in {"jxl", "jpeg"}
    THEN {last.res.val} ELSE {}

EffortOnly(ovs) == { [NoOverrides EXCEPT !.effort = ov.effort] : ov \in ovs }

Encode(U) ==
    \E c \in U.callers, i \in U.images, ov \in U.ovs, m \in U.metas :
        Invoke(U, "encode", c,
               [NoArgs EXCEPT !.input = i, !.ov = ov, !.meta = m])

Decode(U) ==
    \E c \in U.callers, d \in U.datas \cup Chained, md \in U.flags :
        Invoke(U, "decode", c, [NoArgs EXCEPT !.input = d, !.metadata = md])

EncodeJpeg(U) ==
    \E c \in U.callers, i \in U.images, q \in U.quals :
        Invoke(U, "encode_jpeg", c, [NoArgs EXCEPT !.input = i, !.quality = q])

DecodeJpeg(U) ==
    \E c \in U.callers, d \in U.datas \cup Chained :
        Invoke(U, "decode_jpeg", c, [NoArgs EXCEPT !.input = d])

JpegToJxl(U) ==
    \E c \in U.callers, d \in U.datas \cup Chained, ov \in EffortOnly(U.ovs) :
        Invoke(U, "jpeg_to_jxl", c, [NoArgs EXCEPT !.input = d, !.ov = ov])

JxlToJpeg(U) ==
    \E c \in U.callers, d \in U.datas \cup Chained :
        Invoke(U, "jxl_to_jpeg", c, [NoArgs EXCEPT !.input = d])

Read(U) ==
    \E c \in U.callers, p \in U.paths, md \in U.flags :
        Invoke(U, "read", c, [NoArgs EXCEPT !.path = p, !.metadata = md])

Write(U) ==
    \E c \in U.callers, p \in U.outs, i \in U.images, ov \in U.ovs,
       m \in U.metas :
        Invoke(U, "write", c,
               [NoArgs EXCEPT !.path = p, !.input = i, !.ov = ov, !.meta = m])

ReadJpeg(U) ==
    \E c \in U.callers, p \in U.paths :
        Invoke(U, "read_jpeg", c, [NoArgs EXCEPT !.path = p])

WriteJpeg(U) ==
    \E c \in U.callers, p \in U.outs, i \in U.images, q \in U.quals :
        Invoke(U, "write_jpeg", c,
               [NoArgs EXCEPT !.path = p, !.input = i, !.quality = q])

ConvertJpegToJxl(U) ==
    \E c \in U.callers, p \in U.paths, p2 \in U.outs, ov \in EffortOnly(U.ovs) :
        Invoke(U, "convert_jpeg_to_jxl", c,
               [NoArgs EXCEPT !.path = p, !.path2 = p2, !.ov = ov])

ConvertJxlToJpeg(U) ==
    \E c \in U.callers, p \in U.paths, p2 \in U.outs :
        Invoke(U, "convert_jxl_to_jpeg", c,
               [NoArgs EXCEPT !.path = p, !.path2 = p2])

(***************************************************************************)
(* Inputs                                                                  *)
(***************************************************************************)
AllCallers ==
    {Free, FreeAsync} \cup { Method(h) : h \in Handles }
                      \cup { MethodAsync(h) : h \in Handles }

ImageP == Pixels("p")
JpegA == [kind |-> "jpeg", pix |-> Pixels("p"), quality |-> 95]
JpegB == [kind |-> "jpeg", pix |-> Pixels("q"), quality |-> 80]
JxlOfPixels ==
    [kind |-> "jxl", origin |-> "pixels", pix |-> Pixels("p"), effort |-> 7,
     distance |-> 10, lossless |-> FALSE, decoding_speed |-> 0, meta |-> NoMeta]
JxlOfJpeg == [kind |-> "jxl", origin |-> "jpeg", jpeg |-> JpegA, effort |-> 7]

CtorDefaults ==
    [effort |-> 7, distance |-> 10, lossless |-> FALSE, decoding_speed |-> 0,
     threads |-> 0]
CtorCustom ==
    [effort |-> 4, distance |-> 20, lossless |-> TRUE, decoding_speed |-> 2,
     threads |-> 2]

Empty == [p \in Paths |-> Absent]
\* a JPEG file; "d" is a regular file, so nothing can be created below it
FsJpeg == [Empty EXCEPT ![<<"a">>] = JpegA, ![<<"d">>] = Junk]
\* a transcoded JXL file beside an empty directory
FsJxl == [Empty EXCEPT ![<<"a">>] = JxlOfJpeg, ![<<"d">>] = Dir]

(***************************************************************************)
(* Spec: the handle lifecycle around in-memory calls                       *)
(***************************************************************************)
ULife ==
    [maxops |-> MaxOps,
     callers |-> {Free, Method("jxl"), Method("ajxl"), MethodAsync("ajxl")},
     images |-> {ImageP},
     datas |-> {JxlOfPixels},
     paths |-> {}, outs |-> {},
     ovs |-> {NoOverrides},
     metas |-> {NoMeta},
     quals |-> {None},
     flags |-> {FALSE},
     ctors |-> {CtorDefaults},
     initfs |-> {FsJpeg}]

NextLife ==
    \/ \E h \in Handles : Close(h)
    \/ \E h \in Handles : Enter(h)
    \/ \E h \in Handles : ExitNormal(h)
    \/ \E h \in Handles : ExitRaise(h)
    \/ Encode(ULife)
    \/ Decode(ULife)
    \/ \E t \in TaskIds : WorkerStep(t)
    \/ \E t \in TaskIds : Deliver(t)

Spec == Init(ULife) /\ [][NextLife]_vars

(***************************************************************************)
(* SpecFiles: every operation in every form, on open and closed handles    *)
(***************************************************************************)
UFiles ==
    [maxops |-> MaxFileOps,
     callers |-> AllCallers,
     images |-> {ImageP, NotArray},
     datas |-> {Junk, JpegA, JxlOfPixels, JxlOfJpeg},
     paths |-> {<<"a">>, <<"b">>, <<"d">>, <<"d", "e">>},
     outs |-> {<<"b">>, <<"d">>, <<"d", "e", "f">>},
     ovs |-> {NoOverrides},
     metas |-> {NoMeta},
     quals |-> {None},
     flags |-> {FALSE, TRUE},
     ctors |-> {CtorDefaults},
     initfs |-> {FsJpeg, FsJxl}]

NextFiles ==
    \/ \E h \in Handles : Close(h)
    \/ Encode(UFiles)
    \/ Decode(UFiles)
    \/ EncodeJpeg(UFiles)
    \/ DecodeJpeg(UFiles)
    \/ JpegToJxl(UFiles)
    \/ JxlToJpeg(UFiles)
    \/ Read(UFiles)
    \/ Write(UFiles)
    \/ ReadJpeg(UFiles)
    \/ WriteJpeg(UFiles)
    \/ ConvertJpegToJxl(UFiles)
    \/ ConvertJxlToJpeg(UFiles)
    \/ \E t \in TaskIds : LoopStep(t)
    \/ \E t \in TaskIds : WorkerStep(t)
    \/ \E t \in TaskIds : Deliver(t)

SpecFiles == Init(UFiles) /\ [][NextFiles]_vars

(***************************************************************************)
(* SpecPaths: the operations that take an input path, on existing and      *)
(* missing paths, on open and closed handles                               *)
(***************************************************************************)
UPaths ==
    [maxops |-> MaxFileOps,
     callers |-> {Free, FreeAsync, Method("jxl"), MethodAsync("ajxl")},
     images |-> {},
     datas |-> {},
     paths |-> {<<"a">>, <<"b">>, <<"d", "e">>},
     outs |-> {<<"d", "e", "f">>},
     ovs |-> {NoOverrides},
     metas |-> {NoMeta},
     quals |-> {None},
     flags |-> {FALSE},
     ctors |-> {CtorDefaults},
     initfs |-> {FsJpeg, FsJxl}]

NextPaths ==
    \/ \E h \in Handles : Close(h)
    \/ Read(UPaths)
    \/ ReadJpeg(UPaths)
    \/ ConvertJpegToJxl(UPaths)
    \/ ConvertJxlToJpeg(UPaths)
    \/ \E t \in TaskIds : LoopStep(t)
    \/ \E t \in TaskIds : WorkerStep(t)
    \/ \E t \in TaskIds : Deliver(t)

SpecPaths == Init(UPaths) /\ [][NextPaths]_vars

(***************************************************************************)
(* SpecTranscode: chains of JPEG <-> JXL transcoding calls                 *)
(***************************************************************************)
\* a JPEG file beside an empty directory
FsJpegDir == [Empty EXCEPT ![<<"a">>] = JpegA, ![<<"d">>] = Dir]

UTranscode ==
    [maxops |-> MaxOps,
     callers |-> AllCallers,
     images |-> {},
     datas |-> {JpegA, JpegB, Junk},
     paths |-> {<<"a">>, <<"b">>},
     outs |-> {<<"b">>, <<"d", "e", "f">>},
     ovs |-> {NoOverrides, [NoOverrides EXCEPT !.effort = Some(3)]},
     metas |-> {NoMeta},
     quals |-> {None},
     flags |-> {FALSE},
     ctors |-> {CtorDefaults},
     initfs |-> {FsJpegDir}]

NextTranscode ==
    \/ JpegToJxl(UTranscode)
    \/ JxlToJpeg(UTranscode)
    \/ ConvertJpegToJxl(UTranscode)
    \/ ConvertJxlToJpeg(UTranscode)
    \/ \E t \in TaskIds : WorkerStep(t)
    \/ \E t \in TaskIds : Deliver(t)

SpecTranscode == Init(UTranscode) /\ [][NextTranscode]_vars

(***************************************************************************)
(* SpecConfig: per-call overrides against the instance configuration       *)
(***************************************************************************)
\* No override; each field alone, and all four, supplied as zero/false; and
\* two calls with non-zero values.
Overrides ==
    {NoOverrides,
     [NoOverrides EXCEPT !.effort = Some(0)],
     [NoOverrides EXCEPT !.distance = Some(0)],
     [NoOverrides EXCEPT !.lossless = Some(FALSE)],
     [NoOverrides EXCEPT !.decoding_speed = Some(0)],
     [effort |-> Some(0), distance |-> Some(0), lossless |-> Some(FALSE),
      decoding_speed |-> Some(0)],
     [NoOverrides EXCEPT !.effort = Some(7)],
     [effort |-> Some(9), distance |-> Some(5), lossless |-> Some(TRUE),
      decoding_speed |-> Some(1)]}

UConfig ==
    [maxops |-> MaxOps,
     callers |-> {Method("jxl"), MethodAsync("ajxl")},
     images |-> {ImageP},
     datas |-> {JpegA},
     paths |-> {<<"a">>},
     outs |-> {<<"b">>},
     ovs |-> Overrides,
     metas |-> {NoMeta},
     quals |-> {None},
     flags |-> {FALSE},
     ctors |-> {CtorDefaults, CtorCustom},
     initfs |-> {FsJpegDir}]

NextConfig ==
    \/ Encode(UConfig)
    \/ Write(UConfig)
    \/ JpegToJxl(UConfig)
    \/ ConvertJpegToJxl(UConfig)
    \/ \E t \in TaskIds : LoopStep(t)
    \/ \E t \in TaskIds : WorkerStep(t)
    \/ \E t \in TaskIds : Deliver(t)

SpecConfig == Init(UConfig) /\ [][NextConfig]_vars

(***************************************************************************)
(* SpecConcurrent: awaited calls in flight together, and close() among     *)
(* them                                                                    *)
(***************************************************************************)
\* asyncio.create_task(op_async(...)) / asyncio.gather(...): the coroutine is
\* scheduled beside those already in flight.
Spawn(U, op, c, x) ==
    /\ Defined(op, c)
    /\ c.async
    /\ nops < U.maxops
    /\ nops' = nops + 1
    /\ CallAsync(op, c, x)
    /\ UNCHANGED <<scope, lastExit, closes, ctor>>

EncodeConcurrently(U) ==
    \E c \in U.callers, i \in U.images, ov \in U.ovs, m \in U.metas :
        Spawn(U, "encode", c, [NoArgs EXCEPT !.input = i, !.ov = ov, !.meta = m])

\* handle.close() called on the loop thread while coroutines are in flight
CloseInFlight(h) ==
    /\ ~AllIdle
    /\ closes[h] < MaxCloses
    /\ handles' = [handles EXCEPT ![h] = JXL_close(@)]
    /\ closes' = [closes EXCEPT ![h] = @ + 1]
    /\ UNCHANGED <<scope, lastExit, fs, tasks, last, nops, ctor>>

\* Where a statement runs: on the event loop's thread, or, for a job handed to
\* asyncio.to_thread, on the loop's default executor.
LoopThread == [kind |-> "loop"]
DefaultExecutor == [kind |-> "executor", owner |-> "loop"]
RunsOn(s) == IF s.job = 0 THEN LoopThread ELSE DefaultExecutor

\* The worker pool a handle allocates at construction (threads=...).
HandlePool(h) == [kind |-> "pool", owner |-> h]

ImageQ == Pixels("q")

UConcurrent ==
    [maxops |-> MaxOps,
     callers |-> {FreeAsync, MethodAsync("ajxl")},
     images |-> {ImageP, ImageQ},
     datas |-> {},
     paths |-> {}, outs |-> {},
     ovs |-> {NoOverrides, [NoOverrides EXCEPT !.effort = Some(3)]},
     metas |-> {NoMeta},
     quals |-> {None},
     flags |-> {FALSE},
     ctors |-> {CtorDefaults},
     initfs |-> {Empty}]

NextConcurrent ==
    \/ EncodeConcurrently(UConcurrent)
    \/ Close("ajxl")
    \/ CloseInFlight("ajxl")
    \/ \E t \in TaskIds : WorkerStep(t)
    \/ \E t \in TaskIds : Deliver(t)

SpecConcurrent == Init(UConcurrent) /\ [][NextConcurrent]_vars

(***************************************************************************)
(* SpecWrite: the operations that write a file, on open and closed         *)
(* handles, with valid and invalid inputs                                  *)
(***************************************************************************)
\* a JXL file encoded from pixels; no directory exists
FsPixels == [Empty EXCEPT ![<<"a">>] = JxlOfPixels]

UWrite ==
    [maxops |-> MaxFileOps,
     callers |-> {Free, FreeAsync, Method("jxl"), MethodAsync("ajxl")},
     images |-> {ImageP, NotArray},
     datas |-> {},
     paths |-> {<<"a">>},
     outs |-> {<<"a">>, <<"d", "e", "f">>},
     ovs |-> {NoOverrides},
     metas |-> {NoMeta},
     quals |-> {None, Some(80)},
     flags |-> {FALSE},
     ctors |-> {CtorDefaults},
     initfs |-> {FsPixels}]

NextWrite ==
    \/ \E h \in Handles : Close(h)
    \/ Write(UWrite)
    \/ WriteJpeg(UWrite)
    \/ ConvertJpegToJxl(UWrite)
    \/ ConvertJxlToJpeg(UWrite)
    \/ \E t \in TaskIds : LoopStep(t)
    \/ \E t \in TaskIds : WorkerStep(t)
    \/ \E t \in TaskIds : Deliver(t)

SpecWrite == Init(UWrite) /\ [][NextWrite]_vars

(***************************************************************************)
(* SpecMeta: lossless encoding and metadata, written then read back        *)
(***************************************************************************)
\* Every subset of exif, xmp and jumbf, each key with its own payload.
MetaSets ==
    [exif : {None, Some("E")}, xmp : {None, Some("X")}, jumbf : {None, Some("J")}]

\* a stream that carries all three kinds of metadata
JxlWithMeta ==
    [kind |-> "jxl", origin |-> "pixels", pix |-> Pixels("p"), effort |-> 7,
     distance |-> 10, lossless |-> FALSE, decoding_speed |-> 0,
     meta |-> [exif |-> Some("E"), xmp |-> Some("X"), jumbf |-> Some("J")]]

UMeta ==
    [maxops |-> MaxOps,
     callers |-> {Free, FreeAsync, Method("jxl"), MethodAsync("ajxl")},
     images |-> {ImageP},
     datas |-> {JxlWithMeta, JxlOfJpeg},
     paths |-> {<<"b">>},
     outs |-> {<<"b">>},
     ovs |-> {[NoOverrides EXCEPT !.lossless = Some(TRUE)]},
     metas |-> MetaSets,
     quals |-> {None},
     flags |-> {FALSE, TRUE},
     ctors |-> {CtorDefaults},
     initfs |-> {Empty}]

NextMeta ==
    \/ Encode(UMeta)
    \/ Decode(UMeta)
    \/ Write(UMeta)
    \/ Read(UMeta)
    \/ \E t \in TaskIds : LoopStep(t)
    \/ \E t \in TaskIds : WorkerStep(t)
    \/ \E t \in TaskIds : Deliver(t)

SpecMeta == Init(UMeta) /\ [][NextMeta]_vars

(***************************************************************************)
(* Failures: every operation, blocking and awaited, on inputs the engine   *)
(* rejects                                                                 *)
(***************************************************************************)
UErrors ==
    [maxops |-> MaxFileOps,
     callers |-> {Free, FreeAsync, Method("jxl"), MethodAsync("ajxl")},
     images |-> {ImageP, NotArray, BadChannels},
     datas |-> {Junk, JpegA, JxlOfPixels, JxlOfJpeg},
     paths |-> {<<"a">>},
     outs |-> {<<"b">>},
     ovs |-> {NoOverrides},
     metas |-> {NoMeta},
     quals |-> {None},
     flags |-> {FALSE},
     ctors |-> {CtorDefaults},
     initfs |-> {FsPixels}]

NextErrors ==
    \/ Encode(UErrors)
    \/ Decode(UErrors)
    \/ EncodeJpeg(UErrors)
    \/ DecodeJpeg(UErrors)
    \/ JpegToJxl(UErrors)
    \/ JxlToJpeg(UErrors)
    \/ Read(UErrors)
    \/ Write(UErrors)
    \/ ReadJpeg(UErrors)
    \/ WriteJpeg(UErrors)
    \/ ConvertJpegToJxl(UErrors)
    \/ ConvertJxlToJpeg(UErrors)
    \/ \E t \in TaskIds : LoopStep(t)
    \/ \E t \in TaskIds : WorkerStep(t)
    \/ \E t \in TaskIds : Deliver(t)

SpecErrors == Init(UErrors) /\ [][NextErrors]_vars

(***************************************************************************)
(* Failure kinds: decoding and reconstruction on open and Closed handles   *)
(***************************************************************************)
UKinds ==
    [maxops |-> MaxFileOps,
     callers |-> {Free, FreeAsync, Method("jxl"), MethodAsync("ajxl")},
     images |-> {},
     datas |-> {Junk, JxlOfPixels, JxlOfJpeg},
     paths |-> {<<"a">>},
     outs |-> {<<"b">>},
     ovs |-> {NoOverrides},
     metas |-> {NoMeta},
     quals |-> {None},
     flags |-> {FALSE},
     ctors |-> {CtorDefaults},
     initfs |-> {FsPixels}]

NextKinds ==
    \/ \E h \in Handles : Close(h)
    \/ Decode(UKinds)
    \/ JxlToJpeg(UKinds)
    \/ ConvertJxlToJpeg(UKinds)
    \/ \E t \in TaskIds : LoopStep(t)
    \/ \E t \in TaskIds : WorkerStep(t)
    \/ \E t \in TaskIds : Deliver(t)

SpecKinds == Init(UKinds) /\ [][NextKinds]_vars

(***************************************************************************)
(* SpecPool: awaited calls in flight together on handles constructed with  *)
(* a fixed number of threads                                               *)
(***************************************************************************)
\* AsyncJXL(threads=1)
CtorOneThread == [CtorDefaults EXCEPT !.threads = 1]

UPool ==
    [maxops |-> MaxOps,
     callers |-> {FreeAsync, MethodAsync("ajxl")},
     images |-> {ImageP, ImageQ},
     datas |-> {},
     paths |-> {}, outs |-> {},
     ovs |-> {NoOverrides},
     metas |-> {NoMeta},
     quals |-> {None},
     flags |-> {FALSE},
     ctors |-> {CtorOneThread, CtorCustom},
     initfs |-> {Empty}]

NextPool ==
    \/ EncodeConcurrently(UPool)
    \/ Close("ajxl")
    \/ CloseInFlight("ajxl")
    \/ \E t \in TaskIds : WorkerStep(t)
    \/ \E t \in TaskIds : Deliver(t)

SpecPool == Init(UPool) /\ [][NextPool]_vars

(***************************************************************************)
(* SpecFair: awaited calls in flight together, with close() among them,    *)
(* under an executor that runs every job it was given and an event loop    *)
(* that resumes every coroutine whose job is done                          *)
(***************************************************************************)
UFair ==
    [maxops |-> MaxOps,
     callers |-> {MethodAsync("ajxl")},
     images |-> {ImageP},
     datas |-> {},
     paths |-> {}, outs |-> {},
     ovs |-> {NoOverrides},
     metas |-> {NoMeta},
     quals |-> {None},
     flags |-> {FALSE},
     ctors |-> {CtorDefaults},
     initfs |-> {Empty}]

NextFair ==
    \/ EncodeConcurrently(UFair)
    \/ Close("ajxl")
    \/ CloseInFlight("ajxl")
    \/ \E t \in TaskIds : WorkerStep(t)
    \/ \E t \in TaskIds : Deliver(t)

SpecFair ==
    /\ Init(UFair)
    /\ [][NextFair]_vars
    /\ \A t \in TaskIds : WF_vars(WorkerStep(t)) /\ WF_vars(Deliver(t))

(***************************************************************************)
(* SpecCancel: awaited file operations whose caller gives up the await     *)
(***************************************************************************)
\* The statements of job j from pc on, run to the end of the job by the
\* worker thread that has started it.
RECURSIVE RunJob(_, _, _, _)
RunJob(body, pc, j, fr) ==
    IF pc > Len(body) \/ fr.err # "" \/ fr.ret THEN fr
    ELSE IF body[pc].job # j THEN fr
    ELSE RunJob(body, pc + 1, j, ExecStep(body[pc], fr))

\* task.cancel() / a timeout around the await, while coroutine t is suspended
\* at "await asyncio.to_thread(...)" and a worker has started the job: the
\* thread cannot be interrupted and finishes the job; the coroutine gets
\* CancelledError at its await and runs no further statement.
Cancel(t) ==
    /\ tasks[t].st = "run"
    /\ ~Stopped(tasks[t])
    /\ LET k == tasks[t]
           body == Body(k.op, k.c, k.x)
           fr == RunJob(body, k.pc, body[k.pc].job,
                        Frame(k.data, fs, handles, k.calls, k.err, k.ret))
       IN  /\ body[k.pc].job > 0
           /\ fs' = fr.fs
           /\ handles' = fr.hs
           /\ tasks' = [tasks EXCEPT ![t] =
                          [k EXCEPT !.data = NoneVal, !.calls = fr.calls,
                                    !.err = "CancelledError", !.ret = FALSE]]
    /\ UNCHANGED <<scope, lastExit, last, nops, closes, ctor>>

UCancel ==
    [maxops |-> MaxFileOps,
     callers |-> {FreeAsync, MethodAsync("ajxl")},
     images |-> {ImageP},
     datas |-> {},
     paths |-> {<<"a">>},
     outs |-> {<<"b">>},
     ovs |-> {NoOverrides},
     metas |-> {NoMeta},
     quals |-> {None},
     flags |-> {FALSE},
     ctors |-> {CtorDefaults},
     initfs |-> {FsJpeg, FsJxl}]

NextCancel ==
    \/ Write(UCancel)
    \/ WriteJpeg(UCancel)
    \/ ConvertJpegToJxl(UCancel)
    \/ ConvertJxlToJpeg(UCancel)
    \/ \E t \in TaskIds : LoopStep(t)
    \/ \E t \in TaskIds : WorkerStep(t)
    \/ \E t \in TaskIds : Cancel(t)
    \/ \E t \in TaskIds : Deliver(t)

SpecCancel == Init(UCancel) /\ [][NextCancel]_vars

(***************************************************************************)
(* SpecRace: awaited writes and reads of one path in flight together       *)
(***************************************************************************)
\* A file that write_bytes has opened (and so truncated) and not yet filled
\* with data: empty, or a prefix of data.
Torn(data) == [kind |-> "torn", of |-> data]

\* Path.write_bytes(data) is open(path, "wb") followed by write(data): the
\* state between the two, which the statement of coroutine t then completes.
OpenForWrite(t) ==
    /\ tasks[t].st = "run"
    /\ ~Stopped(tasks[t])
    /\ LET k == tasks[t]
           s == Body(k.op, k.c, k.x)[k.pc]
       IN  /\ s.act = "write_bytes"
           /\ WriteBytes(fs, s.path, k.data).err = ""
           /\ fs[s.path] # Torn(k.data)
           /\ fs' = [fs EXCEPT ![s.path] = Torn(k.data)]
    /\ UNCHANGED <<handles, scope, lastExit, tasks, last, nops, closes, ctor>>

WriteConcurrently(U) ==
    \E c \in U.callers, p \in U.outs, i \in U.images :
        Spawn(U, "write", c, [NoArgs EXCEPT !.path = p, !.input = i])

ReadConcurrently(U) ==
    \E c \in U.callers, p \in U.paths :
        Spawn(U, "read", c, [NoArgs EXCEPT !.path = p])

URace ==
    [maxops |-> MaxOps,
     callers |-> {FreeAsync, MethodAsync("ajxl")},
     images |-> {ImageP, ImageQ},
     datas |-> {},
     paths |-> {<<"a">>},
     outs |-> {<<"a">>},
     ovs |-> {NoOverrides},
     metas |-> {NoMeta},
     quals |-> {None},
     flags |-> {FALSE},
     ctors |-> {CtorDefaults},
     initfs |-> {FsPixels}]

NextRace ==
    \/ WriteConcurrently(URace)
    \/ ReadConcurrently(URace)
    \/ \E t \in TaskIds : LoopStep(t)
    \/ \E t \in TaskIds : WorkerStep(t)
    \/ \E t \in TaskIds : OpenForWrite(t)
    \/ \E t \in TaskIds : Deliver(t)

SpecRace == Init(URace) /\ [][NextRace]_vars

(***************************************************************************)
(* Properties                                                              *)
(***************************************************************************)
OnHandle(r) == r.c.self # "free"
\* The handle of call r was Closed when the call was made.
OnClosed(r) == OnHandle(r) /\ r.hs0[r.c.self].closed
NextReturn == last'.n = last.n + 1

\* C1 (in memory): when jpeg_to_jxl is given a valid JPEG x it succeeds, and
\* jxl_to_jpeg of the bytes it returned returns exactly x, whatever the forms
\* (module function, handle method, awaited) of the two calls.
BytesRoundTrip ==
    (/\ NextReturn
     /\ last.op = "jpeg_to_jxl"
     /\ last.x.input.kind = "jpeg"
     /\ last'.op = "jxl_to_jpeg")
    => /\ last.res.ok
       /\ last'.x.input = last.res.val => last'.res = Ok(last.x.input)

\* C1 (files): when convert_jpeg_to_jxl(a, b) succeeded and the next call
\* convert_jxl_to_jpeg(b, c) succeeds, file c holds exactly the bytes file a
\* held before the first call.
FilesRoundTrip ==
    (/\ NextReturn
     /\ last.op = "convert_jpeg_to_jxl" /\ last.res.ok
     /\ last'.op = "convert_jxl_to_jpeg" /\ last'.res.ok
     /\ last'.x.path = last.x.path2)
    => last'.fs1[last'.x.path2] = last.fs0[last.x.path]

\* C1: the JPEG -> JXL -> JPEG round trip is byte exact, in memory and on disk.
C1_RoundTrip == [][BytesRoundTrip /\ FilesRoundTrip]_vars

\* C1 witness: an awaited convert_jxl_to_jpeg has rebuilt, at another path,
\* the JPEG that an earlier convert_jpeg_to_jxl had transcoded.
C1_Witness ==
    /\ last.n = 2
    /\ last.op = "convert_jxl_to_jpeg" /\ last.res.ok /\ last.c.async
    /\ last.x.path2 = <<"d", "e", "f">>
    /\ last.fs1[last.x.path2] = JpegA

\* C2 as claimed: every call on a Closed handle, whatever its arguments,
\* fails with a state error and with no other kind of error.
C2_ClosedFailsWithStateError ==
    (last.op # "none" /\ OnClosed(last)) => last.res = Err("StateError")

Monotonic ==
    \A h \in Handles :
        /\ closes[h] = 0 => ~handles[h].closed
        /\ handles[h].closed => handles'[h].closed

C5_ExitCloses ==
    lastExit.h # "none" =>
        /\ handles[lastExit.h].closed
        /\ lastExit.raised => lastExit.propagated

\* C5 witness: an async with block left by an exception.
C5_Witness ==
    /\ lastExit.h = "ajxl"
    /\ lastExit.raised /\ lastExit.propagated
    /\ handles["ajxl"].closed
    /\ closes["ajxl"] = 1

PathOps == {"read", "read_jpeg", "convert_jpeg_to_jxl", "convert_jxl_to_jpeg"}

\* C6: a read, read_jpeg or convert_* call, in any form, whose input path
\* does not exist fails with a not-found error without any native call.
C6_MissingPathNotFound ==
    (last.op \in PathOps /\ ~PathExists(last.fs0, last.x.path)) =>
        /\ last.res = Err("FileNotFoundError")
        /\ last.calls = << >>

\* C6 witness: an awaited read on a handle, of a path below a regular file.
C6_Witness ==
    /\ last.op = "read" /\ last.c.async /\ OnHandle(last)
    /\ last.x.path = <<"d", "e">>
    /\ IsFile(last.fs0, <<"d">>)
    /\ last.res = Err("FileNotFoundError")

ConfigOps == {"encode", "write", "jpeg_to_jxl", "convert_jpeg_to_jxl"}
EncodeOps == {"encode", "write"}

\* The JXL bytes call r produced: its return value or the file it wrote.
Produced(r) ==
    CASE r.op \in {"encode", "jpeg_to_jxl"} -> r.res.val
      [] r.op = "write" -> r.fs1[r.x.path]
      [] r.op = "convert_jpeg_to_jxl" -> r.fs1[r.x.path2]

\* The value of field f call r asked for: the per-call value when supplied,
\* otherwise the value the handle held when the call was made.
Expected(r, f) ==
    IF r.x.ov[f] # None THEN r.x.ov[f][1] ELSE r.hs0[r.c.self][f]

\* What the module-level function gives for the values call r asked for.
Direct(r) ==
    IF r.op \in EncodeOps
    THEN encode(r.x.input, Expected(r, "effort"), Expected(r, "distance"),
                Expected(r, "lossless"), Expected(r, "decoding_speed"),
                r.x.meta.exif, r.x.meta.xmp, r.x.meta.jumbf)
    ELSE jpeg_to_jxl(IF r.op = "jpeg_to_jxl" THEN r.x.input
                     ELSE r.fs0[r.x.path],
                     Expected(r, "effort"))

ConfigCall(r) == r.op \in ConfigOps /\ OnHandle(r) /\ r.res.ok

\* C7: in every configurable handle operation each of effort, distance,
\* lossless and decoding_speed reaches the engine as the per-call value when
\* supplied and as the handle's value otherwise, so the output equals that
\* of a direct call with those values.
C7_OverridePrecedence ==
    ConfigCall(last) =>
        /\ Produced(last).effort = Expected(last, "effort")
        /\ last.op \in EncodeOps =>
             /\ Produced(last).distance = Expected(last, "distance")
             /\ Produced(last).lossless = Expected(last, "lossless")
             /\ Produced(last).decoding_speed = Expected(last, "decoding_speed")
        /\ Ok(Produced(last)) = Direct(last)

\* C7 witness: a handle built with effort 4 wrote a file with effort = 7.
C7_Witness ==
    /\ last.op = "write" /\ OnHandle(last) /\ last.res.ok
    /\ last.hs0[last.c.self].effort = 4
    /\ last.x.ov.effort = Some(7)
    /\ last.fs1[last.x.path].effort = 7

\* C8: an override supplied as 0 or False is used as given, whatever the
\* handle's own value: it is never taken for an absent argument.
C8_FalsyOverrideIsSupplied ==
    ConfigCall(last) =>
        /\ last.x.ov.effort = Some(0) => Produced(last).effort = 0
        /\ last.op \in EncodeOps =>
             /\ last.x.ov.distance = Some(0) => Produced(last).distance = 0
             /\ last.x.ov.lossless = Some(FALSE) => ~Produced(last).lossless
             /\ last.x.ov.decoding_speed = Some(0) =>
                    Produced(last).decoding_speed = 0

\* C8 witness: an awaited encode with lossless=False on a handle built with
\* lossless=True returned bytes encoded lossily.
C8_Witness ==
    /\ last.op = "encode" /\ last.c.async /\ OnHandle(last) /\ last.res.ok
    /\ last.hs0[last.c.self].lossless
    /\ last.x.ov.lossless = Some(FALSE)
    /\ ~last.res.val.lossless

Configuration(self) ==
    [effort |-> self.effort, distance |-> self.distance,
     lossless |-> self.lossless, decoding_speed |-> self.decoding_speed]

\* C9: no call changes a handle's configuration: every handle always holds
\* the values of its construction, and a call without overrides encodes with
\* exactly those values.
C9_ConfigurationKept ==
    /\ \A h \in Handles : Configuration(handles[h]) = Configuration(ctor)
    /\ (ConfigCall(last) /\ last.x.ov = NoOverrides) =>
          /\ Produced(last).effort = ctor.effort
          /\ last.op \in EncodeOps =>
               /\ Produced(last).distance = ctor.distance
               /\ Produced(last).lossless = ctor.lossless
               /\ Produced(last).decoding_speed = ctor.decoding_speed

\* C9 witness: after a write with every field overridden, an encode without
\* overrides on the same handle used the values of construction.
C9_Witness ==
    /\ last.n = 2
    /\ last.op = "encode" /\ last.c.self = "jxl" /\ last.res.ok
    /\ last.x.ov = NoOverrides
    /\ last.fs0[<<"b">>].kind = "jxl"
    /\ last.fs0[<<"b">>].effort = 9
    /\ last.fs0[<<"b">>].lossless # ctor.lossless
    /\ last.res.val.effort = ctor.effort
    /\ last.res.val.lossless = ctor.lossless

\* The blocking form of an awaited call: the module-level function, or the
\* JXL method on a handle in the same state.
SyncForm(c) ==
    IF c.cls = "free" THEN Free
    ELSE [self |-> c.self, cls |-> "JXL", async |-> FALSE]

\* C10 as claimed: an awaited call resolves to the value or the failure kind
\* its blocking counterpart gives for the same arguments in the same handle
\* and filesystem state.
C10_AsyncMatchesSync ==
    (last.op # "none" /\ last.c.async) =>
        last.res = Outcome(Run(Body(last.op, SyncForm(last.c), last.x),
                               last.fs0, last.hs0))

\* C11: an awaited encode on a handle that nobody closed delivers the
\* encoding of its own input under its own arguments, whatever other calls
\* were in flight and in whatever order the workers finished.
C11_OwnResult ==
    (/\ last.op = "encode" /\ last.c.async /\ OnHandle(last)
     /\ closes[last.c.self] = 0) =>
        last.res = JXL_encode(last.hs0[last.c.self], last.x.input,
                              last.x.ov.effort, last.x.ov.distance,
                              last.x.ov.lossless, last.x.ov.decoding_speed,
                              last.x.meta.exif, last.x.meta.xmp,
                              last.x.meta.jumbf)

\* C11 witness: of two encodes in flight on one handle, the one dispatched
\* second was delivered first, with the encoding of its own input.
C11_Witness ==
    /\ tasks[1].st = "run" /\ tasks[1].c.self = "ajxl"
    /\ tasks[1].x.input = ImageP
    /\ last.n = 1 /\ last.op = "encode" /\ last.c.self = "ajxl"
    /\ last.x.input = ImageQ
    /\ last.res.ok /\ last.res.val.pix = ImageQ

\* C12 as claimed: an awaited call dispatched while its handle was Open ends
\* with the result it has when nothing interleaves, whether or not close()
\* ran before its worker; one dispatched on a Closed handle is rejected.
C12_CloseSparesInFlight ==
    (last.op # "none" /\ last.c.async /\ OnHandle(last)) =>
        IF OnClosed(last)
        THEN last.res = Err("StateError")
        ELSE last.res = Outcome(Run(Body(last.op, last.c, last.x),
                                    last.fs0, last.hs0))

\* The statement coroutine t is about to run.
Pending(t) == Body(tasks[t].op, tasks[t].c, tasks[t].x)[tasks[t].pc]
InFlight(t) == tasks[t].st = "run" /\ ~Stopped(tasks[t])

\* C13 as claimed: every job a handle's awaited call hands to a worker runs
\* on that handle's own pool, and no two callers' jobs share an executor.
C13_OwnPool ==
    /\ \A t \in TaskIds :
         (InFlight(t) /\ OnHandle(tasks[t]) /\ Pending(t).job > 0) =>
             RunsOn(Pending(t)) = HandlePool(tasks[t].c.self)
    /\ \A t, u \in TaskIds :
         (/\ InFlight(t) /\ InFlight(u)
          /\ Pending(t).job > 0 /\ Pending(u).job > 0
          /\ tasks[t].c.self # tasks[u].c.self) =>
             RunsOn(Pending(t)) # RunsOn(Pending(u))

WriteOps == {"write", "write_jpeg"}
StoreOps == WriteOps \cup {"convert_jpeg_to_jxl", "convert_jxl_to_jpeg"}

\* The path call r writes to.
Target(r) == IF r.op \in WriteOps THEN r.x.path ELSE r.x.path2

\* What the encode call of write / write_jpeg call r returns.
Encoded(r) ==
    IF r.op = "write"
    THEN IF OnHandle(r)
         THEN JXL_encode(r.hs0[r.c.self], r.x.input, r.x.ov.effort,
                         r.x.ov.distance, r.x.ov.lossless,
                         r.x.ov.decoding_speed, r.x.meta.exif, r.x.meta.xmp,
                         r.x.meta.jumbf)
         ELSE encode(r.x.input, Default(r.x.ov.effort, DefaultEffort),
                     Default(r.x.ov.distance, DefaultDistance),
                     Default(r.x.ov.lossless, DefaultLossless),
                     Default(r.x.ov.decoding_speed, DefaultDecodingSpeed),
                     r.x.meta.exif, r.x.meta.xmp, r.x.meta.jumbf)
    ELSE IF OnHandle(r)
         THEN JXL_encode_jpeg(r.hs0[r.c.self], r.x.input,
                              Default(r.x.quality, DefaultQuality))
         ELSE encode_jpeg(r.x.input, Default(r.x.quality, DefaultQuality))

\* C14: after a successful write or write_jpeg, in any form, every ancestor
\* of the path is a directory, every entry that existed besides the target
\* is as it was, and the file holds exactly what the encode call returned,
\* in place of whatever it held.
C14_WriteStoresCodestream ==
    (last.op \in WriteOps /\ last.res.ok) =>
        /\ \A q \in Ancestors(last.x.path) : IsDir(last.fs1, q)
        /\ \A p \in Paths \ {last.x.path} :
              PathExists(last.fs0, p) => last.fs1[p] = last.fs0[p]
        /\ \A p \in Paths \ ({last.x.path} \cup Ancestors(last.x.path)) :
              last.fs1[p] = last.fs0[p]
        /\ Ok(last.fs1[last.x.path]) = Encoded(last)

\* C14 witness: an awaited write on a handle created two missing
\* directories and its file.
C14_Witness ==
    /\ last.op = "write" /\ last.c.async /\ OnHandle(last) /\ last.res.ok
    /\ last.x.path = <<"d", "e", "f">>
    /\ last.fs0[<<"d">>] = Absent /\ last.fs1[<<"d">>] = Dir
    /\ last.fs1[<<"d", "e">>] = Dir
    /\ last.fs1[last.x.path].kind = "jxl"

EngineErrors ==
    {"TypeError", "ValueError", "RuntimeError", "NotReconstructible", "StateError"}

\* C15: when the encode or transcode step of a write or convert call fails,
\* the target path is as it was before the call: an existing file keeps its
\* content and no file appears.
C15_NoPartialWrite ==
    (/\ last.op \in StoreOps
     /\ last.calls # << >>
     /\ ~last.res.ok /\ last.res.err \in EngineErrors) =>
        last.fs1[Target(last)] = last.fs0[Target(last)]

\* C15 witness: a write on a Closed handle failed and left the existing
\* file at its path untouched.
C15_Witness ==
    /\ last.op = "write" /\ OnClosed(last)
    /\ last.res = Err("StateError")
    /\ last.x.path = <<"a">>
    /\ IsFile(last.fs0, <<"a">>)
    /\ last.fs1[<<"a">>] = last.fs0[<<"a">>]

\* The pixel buffer of a decode / read result, alone or in its pair.
Buffer(v) == IF v.kind = "pair" THEN v.buf ELSE v

LosslessRoundTrip ==
    (/\ NextReturn
     /\ last.op = "write" /\ last.res.ok
     /\ last.x.ov.lossless = Some(TRUE)
     /\ last'.op = "read" /\ last'.x.path = last.x.path) =>
        /\ last'.res.ok
        /\ Buffer(last'.res.val) = last.x.input

\* C16: a buffer written with lossless=True and then read from the same path
\* comes back equal, whatever the forms of the write and of the read.
C16_LosslessFileRoundTrip == [][LosslessRoundTrip]_vars

\* C16 witness: an awaited read on a handle returned the buffer that an
\* earlier lossless write had stored.
C16_Witness ==
    /\ last.n = 2
    /\ last.op = "read" /\ last.c.async /\ OnHandle(last)
    /\ last.fs0[last.x.path].kind = "jxl"
    /\ last.fs0[last.x.path].lossless
    /\ last.res = Ok(ImageP)

\* The stream a decode / read call was given.
Stream(r) == IF r.op = "decode" THEN r.x.input ELSE r.fs0[r.x.path]
CarriesMeta(d) == d.origin = "pixels" /\ d.meta # NoMeta

\* C17: a successful decode or read returns the buffer alone when metadata
\* was not requested, also for a stream that carries metadata, and a pair
\* (buffer, map) when it was, the map being empty for a stream without
\* metadata.
C17_ResultShape ==
    (last.op \in {"decode", "read"} /\ last.res.ok) =>
        IF last.x.metadata
        THEN /\ last.res.val.kind = "pair"
             /\ last.res.val.buf.kind = "pixels"
             /\ ~CarriesMeta(Stream(last)) => last.res.val.meta = NoMeta
        ELSE last.res.val.kind = "pixels"

\* C17 witness: an awaited module-level read without the metadata request,
\* of a file that carries metadata, returned the buffer alone.
C17_Witness ==
    /\ last.op = "read" /\ last.c = FreeAsync /\ last.res.ok
    /\ ~last.x.metadata
    /\ CarriesMeta(last.fs0[last.x.path])
    /\ last.res.val.kind = "pixels"

MetaRoundTrip ==
    (/\ NextReturn
     /\ last.res.ok
     /\ last'.x.metadata
     /\ \/ /\ last.op = "encode" /\ last'.op = "decode"
           /\ last'.x.input = last.res.val
        \/ /\ last.op = "write" /\ last'.op = "read"
           /\ last'.x.path = last.x.path) =>
        /\ last'.res.ok
        /\ last'.res.val.meta = last.x.meta

\* C18: decoding (reading) with metadata=True what encode (write) produced
\* returns exactly the keys that were supplied, each with the payload that
\* was supplied for it.
C18_MetadataRoundTrip == [][MetaRoundTrip]_vars

\* C18 witness: exif alone was written by one form and read back, alone and
\* unchanged, by an awaited read on a handle.
C18_Witness ==
    /\ last.n = 2
    /\ last.op = "read" /\ last.c.async /\ OnHandle(last) /\ last.res.ok
    /\ last.x.metadata
    /\ last.fs0[last.x.path].meta = [exif |-> Some("E"), xmp |-> None, jumbf |-> None]
    /\ last.res.val.meta = [exif |-> Some("E"), xmp |-> None, jumbf |-> None]

\* The engine primitive an operation hands its input to.
PrimOf(op) ==
    CASE op \in {"encode", "write"} -> "encode"
      [] op \in {"decode", "read"} -> "decode"
      [] op \in {"encode_jpeg", "write_jpeg"} -> "encode_jpeg"
      [] op \in {"decode_jpeg", "read_jpeg"} -> "decode_jpeg"
      [] op \in {"jpeg_to_jxl", "convert_jpeg_to_jxl"} -> "jpeg_to_jxl"
      [] op \in {"jxl_to_jpeg", "convert_jxl_to_jpeg"} -> "jxl_to_jpeg"

\* What call r hands to the primitive: its argument or the file it read.
EngineInput(r) ==
    IF r.op \in {"read", "read_jpeg", "convert_jpeg_to_jxl", "convert_jxl_to_jpeg"}
    THEN r.fs0[r.x.path] ELSE r.x.input

\* The kind of failure the engine raises on an input, "" when it accepts it.
Fault(prim, input) ==
    LET r == CASE prim = "encode" ->
                    encode(input, DefaultEffort, DefaultDistance, DefaultLossless,
                           DefaultDecodingSpeed, None, None, None)
               [] prim = "decode" -> decode(input, FALSE)
               [] prim = "encode_jpeg" -> encode_jpeg(input, DefaultQuality)
               [] prim = "decode_jpeg" -> decode_jpeg(input)
               [] prim = "jpeg_to_jxl" -> jpeg_to_jxl(input, DefaultEffort)
               [] prim = "jxl_to_jpeg" -> jxl_to_jpeg(input)
    IN  IF r.ok THEN "" ELSE r.err

\* C19: an operation that reaches the engine invokes its one primitive
\* exactly once, and when the primitive raises, the caller of the operation
\* (blocking, file-level or awaited) gets a failure of that very kind, never
\* a result.
C19_ErrorsPropagate ==
    (last.op # "none" /\ last.calls # << >>) =>
        /\ last.calls = << PrimOf(last.op) >>
        /\ (~OnClosed(last) /\ Fault(PrimOf(last.op), EngineInput(last)) # "") =>
              last.res = Err(Fault(PrimOf(last.op), EngineInput(last)))

\* C19 witness: an awaited file-level conversion on a handle read a
\* pixel-origin stream, called the engine once and failed as the engine did.
C19_Witness ==
    /\ last.op = "convert_jxl_to_jpeg" /\ last.c.async /\ OnHandle(last)
    /\ last.calls = << "jxl_to_jpeg" >>
    /\ Fault("jxl_to_jpeg", last.fs0[last.x.path]) = "NotReconstructible"
    /\ last.res = Err("NotReconstructible")

\* C20: of the calls that reach the native layer, exactly those on a Closed
\* handle fail with the state error (so a module-level call never does), and
\* reconstructing a JPEG from a stream that was not made from one fails with
\* its own kind, which is not the kind a corrupt stream gives.
C20_KindsDistinct ==
    (last.op # "none" /\ last.calls # << >>) =>
        /\ OnClosed(last) <=> last.res = Err("StateError")
        /\ (/\ last.op \in {"jxl_to_jpeg", "convert_jxl_to_jpeg"}
            /\ ~OnClosed(last)) =>
              LET d == EngineInput(last) IN
              /\ (d.kind = "jxl" /\ d.origin # "jpeg") =>
                    last.res = Err("NotReconstructible")
              /\ d.kind # "jxl" => last.res = Err("RuntimeError")
              /\ (d.kind = "jxl" /\ d.origin = "jpeg") => last.res.ok

\* C20 witness: the awaited module-level jxl_to_jpeg was given a stream
\* encoded from pixels and failed as not reconstructible.
C20_Witness ==
    /\ last.op = "jxl_to_jpeg" /\ last.c.async /\ ~OnHandle(last)
    /\ last.x.input = JxlOfPixels
    /\ last.res = Err("NotReconstructible")

FsActs == {"exists", "mkdir", "read_bytes", "write_bytes"}

\* C21 as claimed: a call on a Closed handle is rejected before anything is
\* done: it leaves the filesystem exactly as it was, and its coroutine never
\* has a statement to run on a worker or against the filesystem.
C21_ClosedTouchesNothing ==
    /\ (last.op # "none" /\ OnClosed(last)) => last.fs1 = last.fs0
    /\ \A t \in TaskIds :
         (InFlight(t) /\ OnClosed(tasks[t])) =>
             Pending(t).job = 0 /\ Pending(t).act \notin FsActs

\* C22 as claimed: in every write form the ancestor directories exist by the
\* time encode is invoked, in a coroutine still running and in a call that
\* has returned.
C22_DirectoriesBeforeEncode ==
    /\ \A t \in TaskIds :
         (/\ tasks[t].st = "run" /\ tasks[t].op \in WriteOps
          /\ tasks[t].calls # << >>) =>
             \A q \in Ancestors(tasks[t].x.path) : IsDir(fs, q)
    /\ (last.op \in WriteOps /\ last.calls # << >>) =>
          \A q \in Ancestors(last.x.path) : IsDir(last.fs1, q)

\* C23 as claimed: in an awaited file operation every filesystem action and
\* every codec call is a statement of a worker job, none runs on the thread
\* of the event loop.
C23_FileWorkOffLoop ==
    \A t \in TaskIds :
        (/\ InFlight(t) /\ tasks[t].op \in PathOps \cup StoreOps
         /\ Pending(t).act \in FsActs \cup {"native"}) =>
            RunsOn(Pending(t)) # LoopThread

\* C25 as claimed: read and read_jpeg fail with the not-found error for
\* every path that is not an existing file, a directory included, and reach
\* the decoder only for an existing file.
C25_NotAFileIsNotFound ==
    (last.op \in {"read", "read_jpeg"} /\ ~IsFile(last.fs0, last.x.path)) =>
        last.res = Err("FileNotFoundError") /\ last.calls = << >>

\* The handles as call r found them, every handle but its own made Open.
OthersOpen(r) ==
    [h \in Handles |->
        IF h = r.c.self THEN r.hs0[h] ELSE [r.hs0[h] EXCEPT !.closed = FALSE]]

IndependentStep ==
    /\ \A h \in Handles :
         handles'[h] # handles[h] =>
             \A g \in Handles \ {h} : handles'[g] = handles[g]
    /\ (NextReturn /\ ~OnClosed(last')) =>
          /\ last'.res = Outcome(Run(Body(last'.op, last'.c, last'.x),
                                    last'.fs0, OthersOpen(last')))
          /\ last'.res # Err("StateError")

\* C27: a step that changes one handle (close) leaves every other handle as
\* it was, and a call on an Open handle or a module-level call returns what
\* it returns when every other handle is Open: never the state error.
C27_HandlesIndependent == [][IndependentStep]_vars

\* C27 witness: an awaited decode on the Open AsyncJXL handle succeeded
\* after the JXL handle had been closed.
C27_Witness ==
    /\ last.op = "decode" /\ last.c.async /\ last.c.self = "ajxl"
    /\ last.hs0["jxl"].closed /\ ~last.hs0["ajxl"].closed
    /\ last.res.ok

ConvertOps == {"convert_jpeg_to_jxl", "convert_jxl_to_jpeg"}

\* C28: a convert call, in any form, whose input path does not exist leaves
\* the filesystem as it was: no directory and no output file is created.
C28_MissingInputNoEffect ==
    /\ (last.op \in ConvertOps /\ ~PathExists(last.fs0, last.x.path)) =>
          last.fs1 = last.fs0
    /\ \A t \in TaskIds :
         (/\ tasks[t].st = "run" /\ tasks[t].op \in ConvertOps
          /\ ~PathExists(tasks[t].fs0, tasks[t].x.path)) => fs = tasks[t].fs0

\* C28 witness: an awaited conversion on a handle, of a missing input to an
\* output two levels below an existing directory, failed and created nothing.
C28_Witness ==
    /\ last.op = "convert_jpeg_to_jxl" /\ last.c.async /\ OnHandle(last)
    /\ ~PathExists(last.fs0, last.x.path)
    /\ last.x.path2 = <<"d", "e", "f">>
    /\ IsDir(last.fs0, <<"d">>) /\ ~PathExists(last.fs0, <<"d", "e">>)
    /\ last.res = Err("FileNotFoundError")
    /\ last.fs1 = last.fs0

\* The coroutines of handle h whose current job is with the executor.
Executing(h) ==
    { t \in TaskIds : InFlight(t) /\ tasks[t].c.self = h /\ Pending(t).job > 0 }

\* C26 as claimed: a handle constructed with threads = n > 0 never has more
\* than n of its operations on worker threads at once.
C26_PoolBound ==
    \A h \in Handles :
        handles[h].threads > 0 => Cardinality(Executing(h)) <= handles[h].threads

C24_CancelledStillWrites ==
    (/\ last.op \in StoreOps /\ last.c.async
     /\ last.res = Err("CancelledError")) =>
        last.fs1 = Run(Body(last.op, last.c, last.x), last.fs0, last.hs0).fs

\* C30 as claimed: with writes and reads of one path in flight together, no
\* coroutine has loaded a partial file, and once nothing is in flight no
\* file is partial.
C30_NoPartialFile ==
    /\ \A t \in TaskIds : tasks[t].st = "run" => tasks[t].data.kind # "torn"
    /\ AllIdle => \A p \in Paths : fs[p].kind # "torn"

====
